---- MODULE Spec2Model ----
(***************************************************************************)
(* A model of fast_buffer.py: BufferPool, Buffer, BufferView, BufferGroup  *)
(* and the substring search shared by find and split.                      *)
(*                                                                         *)
(* Objects live in heaps indexed by identity: bufs[b] is the Buffer with   *)
(* identity b, a view is the record [buf, off, len] (its keepalive, the    *)
(* offset of its _data pointer into the keepalive's _data, its _length).   *)
(* Python's None is the empty tuple <<>> and a present optional argument   *)
(* k is <<k>>.  A bitmask is the set of its set bit positions.             *)
(***************************************************************************)
EXTENDS Integers, Sequences, FiniteSets, TLC

VARIABLES
    capacity,     \* BufferPool.capacity
    buffer_size,  \* BufferPool.buffer_size
    freelist,     \* BufferPool._freelist: buffer identities, 0 for None
    num_free,     \* BufferPool._num_free
    bufs,         \* heap of Buffer objects: [data, writepos]
    held,         \* buffer identities the caller has a reference to
    views,        \* heap of BufferView objects the caller has a reference to
    needle,       \* the needle / separator argument under test
    gen,          \* the generator object returned by split
    pieces,       \* the views the generator has yielded so far
    collator,     \* the BufferCollator: [views, total_length]
    group,        \* the BufferGroup the caller has a reference to, or None
    last          \* the last call: its operation, arguments and outcome

vars == <<capacity, buffer_size, freelist, num_free, bufs, held, views,
          needle, gen, pieces, collator, group, last>>

poolVars == <<capacity, buffer_size, freelist, num_free, held>>
searchVars == <<needle, gen, pieces>>

----------------------------------------------------------------------------
(* Bounds of the model. *)

MaxHay == 7        \* longest view content searched
MaxNeedle == 4     \* longest needle / separator
MaxSplit == 2      \* largest maxsplit argument

(* The byte values written into buffers: 'a' and 'b'. *)
Bytes == {97, 98}

BLOOM_WIDTH == 64

NULL == <<>>
None == <<>>

RECURSIVE SeqsUpTo(_, _)
SeqsUpTo(S, n) ==
    IF n = 0 THEN {<<>>}
    ELSE LET shorter == SeqsUpTo(S, n - 1)
         IN shorter \cup {Append(s, x) : s \in {t \in shorter : Len(t) = n - 1}, x \in S}

Min(a, b) == IF a <= b THEN a ELSE b
Max(a, b) == IF a >= b THEN a ELSE b

----------------------------------------------------------------------------
(* Buffer and BufferView objects. *)

NoLast == [op |-> "none"]
NoGen == [pc |-> "none"]
NoCollator == [views |-> <<>>, total_length |-> 0, appended |-> <<>>]
NoGroup == <<>>

Buffer_init(cap) == [data |-> [i \in 1..cap |-> 0], writepos |-> 0]

Buffer_capacity(b) == Len(b.data)

Buffer_free(b) == Len(b.data) - b.writepos

(* BufferView.__init__(buf, data, start, stop), data being the pointer at  *)
(* offset dataOff of buf's memory.                                         *)
BufferView_init(buf, dataOff, start, stop) ==
    [buf |-> buf, off |-> dataOff + start, len |-> stop - start]

(* self._data[i] of a view: the byte i places after the view's pointer.    *)
ViewAt(v, i) == bufs[v.buf].data[v.off + i + 1]

(* The bytes a view exposes. *)
ViewBytes(v) == [i \in 1..v.len |-> ViewAt(v, i - 1)]

(* slice.indices(len) for a slice with step None: (start, stop).           *)
SliceIndex(x, len, default) ==
    IF x = None THEN default
    ELSE IF x[1] < 0 THEN Max(x[1] + len, 0)
    ELSE Min(x[1], len)

slice_indices_noclamp(start, stop, len) ==
    <<IF start = None THEN 0 ELSE IF start[1] < 0 THEN start[1] + len ELSE start[1],
      IF stop = None THEN len ELSE IF stop[1] < 0 THEN stop[1] + len ELSE stop[1]>>

slice_indices(start, stop, len) ==
    <<SliceIndex(start, len, 0), SliceIndex(stop, len, len)>>

(* BufferView.__getitem__ with a slice of step 1: the view, or the error.  *)
BufferView_getslice(v, start, stop) ==
    LET ix == slice_indices(start, stop, v.len)
    IN IF ix[1] > ix[2] THEN [err |-> "ValueError"]
       ELSE [err |-> "", view |-> BufferView_init(v.buf, v.off, ix[1], ix[2])]

----------------------------------------------------------------------------
(* The search engine. *)

_bloom_add(mask, c) == mask \cup {c % BLOOM_WIDTH}

_bloom(mask, c) == (c % BLOOM_WIDTH) \in mask

RECURSIVE _make_find_mask_loop(_, _, _, _)
_make_find_mask_loop(sub, i, mask, skip) ==
    LET mlast == Len(sub) - 1
    IN IF i >= mlast THEN <<mask, skip>>
       ELSE _make_find_mask_loop(sub, i + 1, _bloom_add(mask, sub[i + 1]),
                IF sub[i + 1] = sub[mlast + 1] THEN mlast - i - 1 ELSE skip)

_make_find_mask_noskip(sub) ==
    LET mlast == Len(sub) - 1
        r == _make_find_mask_loop(sub, 0, {}, mlast - 1)
    IN <<_bloom_add(r[1], sub[mlast + 1]), mlast>>

_make_find_mask(sub) ==
    LET mlast == Len(sub) - 1
        r == _make_find_mask_loop(sub, 0, {}, mlast - 1)
    IN <<_bloom_add(r[1], sub[mlast + 1]), r[2]>>

(* One pass of the while loop of _multi_char_find, entered with i. *)
RECURSIVE _multi_char_find_loop(_, _, _, _, _, _)
_multi_char_find_loop(v, sub, i0, lim, mask, skip) ==
    IF ~(i0 + 1 <= lim) THEN -1
    ELSE LET i == i0 + 1
             m == Len(sub)
             miss == i + m < v.len /\ ~_bloom(mask, ViewAt(v, i + m))
         IN IF ViewAt(v, i + m - 1) = sub[m]
            THEN IF \A j \in 0..(m - 2) : ViewAt(v, i + j) = sub[j + 1]
                 THEN i
                 ELSE IF miss
                      THEN _multi_char_find_loop(v, sub, i + m, lim, mask, skip)
                      ELSE _multi_char_find_loop(v, sub, i + skip, lim, mask, skip)
            ELSE IF miss
                 THEN _multi_char_find_loop(v, sub, i + m, lim, mask, skip)
                 ELSE _multi_char_find_loop(v, sub, i, lim, mask, skip)

_multi_char_find(v, sub, start, stop, mask, skip) ==
    LET w == (stop - start) - Len(sub)
    IN _multi_char_find_loop(v, sub, start - 1, start + w, mask, skip)

(* memchr(self._data + start, c, n): the offset from self._data of the     *)
(* first of the n bytes that equals c, or NULL.                            *)
RECURSIVE memchr(_, _, _, _)
memchr(v, start, c, n) ==
    IF n <= 0 THEN NULL
    ELSE IF ViewAt(v, start) = c THEN <<start>>
    ELSE memchr(v, start + 1, c, n - 1)

(* BufferView.find(needle, start, stop); stop is None or <<k>>. *)
BufferView_find_empty_zero(v, sub, start0, stop0) ==
    LET stop1 == IF stop0 = None \/ stop0 = <<0>> THEN v.len ELSE stop0[1]
        start == IF start0 < 0 THEN 0 ELSE start0
        stop == IF stop1 > v.len THEN v.len ELSE stop1
    IN IF stop - start < 0 THEN -1
       ELSE IF Len(sub) = 0 THEN 0
       ELSE IF Len(sub) = 1
            THEN LET res == memchr(v, start, sub[1], stop - start)
                 IN IF res = NULL THEN -1 ELSE res[1]
       ELSE LET ms == _make_find_mask(sub)
            IN _multi_char_find(v, sub, start, stop, ms[1], ms[2])

BufferView_find(v, sub, start0, stop0) ==
    LET stop1 == IF stop0 = None \/ stop0 = <<0>> THEN v.len ELSE stop0[1]
        start == IF start0 < 0 THEN 0 ELSE start0
        stop == IF stop1 > v.len THEN v.len ELSE stop1
    IN IF stop - start < 0 THEN -1
       ELSE IF Len(sub) = 0 THEN start
       ELSE IF Len(sub) = 1
            THEN LET res == memchr(v, start, sub[1], stop - start)
                 IN IF res = NULL THEN -1 ELSE res[1]
       ELSE LET ms == _make_find_mask(sub)
            IN _multi_char_find(v, sub, start, stop, ms[1], ms[2])

----------------------------------------------------------------------------
(* split: BufferView.split returns the generator of _split_char or of      *)
(* _split_multi_char; the generator's body runs when the caller asks for   *)
(* the next piece.  gen.pc is where the generator is suspended: "init"     *)
(* (not started), "loop" (at the yield inside the while loop), "last" (at  *)
(* the final yield), "done" (exhausted).                                   *)

BufferView_split(by, maxsplit) ==
    IF Len(by) = 0 THEN [err |-> "ValueError"]
    ELSE [err |-> "",
          gen |-> [pc |-> "init", kind |-> IF Len(by) = 1 THEN "char" ELSE "multi",
                   by |-> by, maxsplit |-> maxsplit, start |-> 0, next |-> 0,
                   mask |-> {}, skip |-> 0]]

(* start = next + 1 *)
_split_char_restart_same(next, by) == next

_split_char_restart(next, by) == next + 1

(* start = next + len(by) *)
_split_multi_char_restart_one(next, by) == next + 1

_split_multi_char_restart(next, by) == next + Len(by)

(* The generator g, about to test `while maxsplit != 0`, run to its next   *)
(* yield on view v: the generator after it, and the piece it yields.       *)
_split_run(v, g) ==
    LET next == IF g.maxsplit = 0 THEN -1
                ELSE IF g.kind = "char"
                     THEN BufferView_find(v, g.by, g.start, None)
                     ELSE _multi_char_find(v, g.by, g.start, v.len, g.mask, g.skip)
    IN IF g.maxsplit # 0 /\ ~(next < 0)
       THEN [gen |-> [g EXCEPT !.pc = "loop", !.next = next],
             piece |-> BufferView_getslice(v, <<g.start>>, <<next>>)]
       ELSE [gen |-> [g EXCEPT !.pc = "last"],
             piece |-> BufferView_getslice(v, <<g.start>>, None)]

(* next(g): the generator resumed from where it is suspended. *)
_split_resume(v, g) ==
    IF g.pc = "init"
    THEN IF g.kind = "char"
         THEN _split_run(v, [g EXCEPT !.start = 0])
         ELSE LET ms == _make_find_mask(g.by)
              IN _split_run(v, [g EXCEPT !.start = 0, !.mask = ms[1], !.skip = ms[2]])
    ELSE IF g.pc = "loop"
    THEN _split_run(v, [g EXCEPT
             !.start = IF g.kind = "char" THEN _split_char_restart(g.next, g.by)
                       ELSE _split_multi_char_restart(g.next, g.by),
             !.maxsplit = g.maxsplit - 1])
    ELSE [gen |-> [g EXCEPT !.pc = "done"], piece |-> [err |-> "StopIteration"]]

(* buffer.py: Buffer.split(by, maxsplit) is itself a generator function,   *)
(* so the call runs none of its body and returns a generator suspended at  *)
(* the start of the body.                                                  *)
Buffer_split(by, maxsplit) ==
    [err |-> "",
     gen |-> [pc |-> "init", kind |-> "body", by |-> by, maxsplit |-> maxsplit,
              start |-> 0, next |-> 0, mask |-> {}, skip |-> 0]]

(* next(g) on that generator, not yet started: the body runs from its top, *)
(* raising ValueError for an empty separator; its two loops are the loops  *)
(* of _split_char and _split_multi_char.                                   *)
Buffer_split_resume(v, g) ==
    IF Len(g.by) = 0
    THEN [gen |-> [g EXCEPT !.pc = "raised"], piece |-> [err |-> "ValueError"]]
    ELSE _split_resume(v, [g EXCEPT !.kind = IF Len(g.by) = 1 THEN "char" ELSE "multi"])

----------------------------------------------------------------------------
(* The search specification: a view over a buffer holding any bytes, and a *)
(* needle; the caller calls find and split on it and drains the generator. *)

InitSearchWith(maxhay, maxneedle) ==
    /\ \E h \in SeqsUpTo(Bytes, maxhay) :
          /\ bufs = <<[data |-> h, writepos |-> Len(h)]>>
          /\ views = <<BufferView_init(1, 0, 0, Len(h))>>
    /\ needle \in SeqsUpTo(Bytes, maxneedle)
    /\ capacity = 0 /\ buffer_size = 0 /\ freelist = <<>> /\ num_free = 0
    /\ held = {1}
    /\ gen = NoGen /\ pieces = <<>>
    /\ collator = NoCollator
    /\ group = NoGroup
    /\ last = NoLast

InitSearch == InitSearchWith(MaxHay, MaxNeedle)

Find ==
    /\ last' = [op |-> "find", res |-> BufferView_find(views[1], needle, 0, None)]
    /\ gen' = NoGen
    /\ pieces' = <<>>
    /\ UNCHANGED <<poolVars, bufs, views, needle, collator, group>>

Split(maxsplit) ==
    LET r == BufferView_split(needle, maxsplit)
    IN /\ last' = [op |-> "split", maxsplit |-> maxsplit, err |-> r.err]
       /\ gen' = IF r.err = "" THEN r.gen ELSE NoGen
       /\ pieces' = <<>>
       /\ UNCHANGED <<poolVars, bufs, views, needle, collator, group>>

GenNext ==
    /\ gen.pc \in {"init", "loop", "last"}
    /\ gen.kind \in {"char", "multi"}
    /\ LET r == _split_resume(views[1], gen)
       IN /\ gen' = IF r.piece.err = "ValueError" THEN [gen EXCEPT !.pc = "raised"]
                    ELSE r.gen
          /\ pieces' = IF r.piece.err = "" THEN Append(pieces, r.piece.view) ELSE pieces
    /\ UNCHANGED <<poolVars, bufs, views, needle, collator, group, last>>

NextSearch ==
    \/ Find
    \/ \E k \in -1..MaxSplit : Split(k)
    \/ GenNext

SpecSearch == InitSearch /\ [][NextSearch]_vars

----------------------------------------------------------------------------
(* The find specification: find called with every start and stop, in and   *)
(* out of the view's range.                                                *)

MaxFindHay == 5      \* longest view content searched with start and stop
MaxFindNeedle == 3   \* longest needle searched with start and stop

InitFind == InitSearchWith(MaxFindHay, MaxFindNeedle)

FindArgs == -1..(MaxFindHay + 1)

OptFindArgs == {None} \cup {<<k>> : k \in FindArgs}

(* views[1].find(needle, start, stop), the one call of a behaviour *)
FindRange(start, stop) ==
    /\ last.op = "none"
    /\ last' = [op |-> "find", start |-> start, stop |-> stop,
                res |-> BufferView_find(views[1], needle, start, stop)]
    /\ UNCHANGED <<poolVars, bufs, views, searchVars, collator, group>>

NextFind == \E start \in FindArgs, stop \in OptFindArgs : FindRange(start, stop)

SpecFind == InitFind /\ [][NextFind]_vars

----------------------------------------------------------------------------
(* The split-call specification: split as BufferView.split of              *)
(* fast_buffer.py and as Buffer.split of buffer.py, on the same bytes.     *)

(* g = Buffer.split(needle, maxsplit) of buffer.py *)
BufferSplit(maxsplit) ==
    LET r == Buffer_split(needle, maxsplit)
    IN /\ last' = [op |-> "buffer_split", maxsplit |-> maxsplit, err |-> r.err]
       /\ gen' = r.gen
       /\ pieces' = <<>>
       /\ UNCHANGED <<poolVars, bufs, views, needle, collator, group>>

(* The first next(g) on a generator of Buffer.split. *)
BufferGenNext ==
    /\ gen.pc = "init"
    /\ gen.kind = "body"
    /\ LET r == Buffer_split_resume(views[1], gen)
       IN /\ gen' = r.gen
          /\ pieces' = IF r.piece.err = "" THEN Append(pieces, r.piece.view) ELSE pieces
    /\ UNCHANGED <<poolVars, bufs, views, needle, collator, group, last>>

NextSplitCall ==
    \/ \E k \in -1..MaxSplit : Split(k)
    \/ \E k \in -1..MaxSplit : BufferSplit(k)
    \/ GenNext
    \/ BufferGenNext

SpecSplitCall == InitFind /\ [][NextSplitCall]_vars

----------------------------------------------------------------------------
(* Reference notions the claims are stated with. *)

Hay == ViewBytes(views[1])

(* The indices i with H[i:i+|N|] == N. *)
Matches(H, N) ==
    {i \in 0..(Len(H) - Len(N)) : \A j \in 1..Len(N) : H[i + j] = N[j]}

SetMin(S) == CHOOSE x \in S : \A y \in S : x <= y

FirstMatch(H, N) == IF Matches(H, N) = {} THEN -1 ELSE SetMin(Matches(H, N))

(* The pieces' bytes with sep re-inserted between consecutive pieces. *)
RECURSIVE Rejoin(_, _)
Rejoin(ps, sep) ==
    IF Len(ps) = 0 THEN <<>>
    ELSE IF Len(ps) = 1 THEN ViewBytes(ps[1])
    ELSE ViewBytes(ps[1]) \o sep \o Rejoin(Tail(ps), sep)

(* C1: for a non-empty needle no longer than the view, find with default   *)
(* start and stop returns the smallest index at which the needle occurs,   *)
(* or -1 when it occurs nowhere.                                           *)
C1_FindFirst ==
    (last.op = "find" /\ Len(needle) >= 1 /\ Len(needle) <= Len(Hay))
        => last.res = FirstMatch(Hay, needle)

(* "aaab" in "aaaaaab" is found at 3. *)
C1_Witness ==
    /\ last.op = "find"
    /\ Hay = <<97, 97, 97, 97, 97, 97, 98>>
    /\ needle = <<97, 97, 97, 98>>
    /\ last.res = 3

(* C2: once split has yielded all its pieces, the pieces joined with the   *)
(* separator between consecutive pieces are the view's bytes.              *)
C2_SplitRejoin ==
    (gen.pc = "done" /\ Len(needle) >= 1) => Rejoin(pieces, needle) = Hay

(* A two-byte separator, maxsplit 1, and a remainder that still holds the  *)
(* separator.                                                              *)
C2_Witness ==
    /\ gen.pc = "done"
    /\ Len(needle) = 2
    /\ last.op = "split" /\ last.maxsplit = 1
    /\ Len(pieces) = 2
    /\ Matches(ViewBytes(pieces[2]), needle) # {}
    /\ Rejoin(pieces, needle) = Hay

----------------------------------------------------------------------------
(* BufferPool and Buffer operations.  Each returns the fields it changes   *)
(* and what the call returns or raises.                                    *)

(* BufferPool.__init__(capacity, buffer_size) *)
BufferPool_init(cap, size) ==
    [capacity |-> cap, buffer_size |-> size,
     freelist |-> [i \in 1..cap |-> i], num_free |-> cap,
     bufs |-> [i \in 1..cap |-> Buffer_init(size)]]

(* BufferPool.buffer(): slot _num_free - 1 of the free-list when one is    *)
(* occupied, else a new Buffer (identity Len(bufs) + 1).                   *)
BufferPool_buffer ==
    IF num_free # 0
    THEN [res |-> freelist[num_free], fresh |-> FALSE,
          num_free |-> num_free - 1,
          freelist |-> [freelist EXCEPT ![num_free] = 0],
          bufs |-> bufs]
    ELSE [res |-> Len(bufs) + 1, fresh |-> TRUE,
          num_free |-> num_free, freelist |-> freelist,
          bufs |-> Append(bufs, Buffer_init(buffer_size))]

(* BufferPool.return_buffer(buffer) *)
BufferPool_return_buffer_unchecked(b) ==
    [pushed |-> TRUE,
     freelist |-> IF num_free < Len(freelist)
                  THEN [freelist EXCEPT ![num_free + 1] = b]
                  ELSE Append(freelist, b),
     num_free |-> num_free + 1]

BufferPool_return_buffer(b) ==
    IF num_free # capacity
    THEN [pushed |-> TRUE,
          freelist |-> [freelist EXCEPT ![num_free + 1] = b],
          num_free |-> num_free + 1]
    ELSE [pushed |-> FALSE, freelist |-> freelist, num_free |-> num_free]

(* Buffer.release(): the buffer after `self._writepos = 0`. *)
Buffer_release_keep(buf) == buf

Buffer_release(buf) == [buf EXCEPT !.writepos = 0]

(* The loop of add_bytes: bytes i .. n-1 of b still to be written. *)
RECURSIVE _add_bytes_loop(_, _, _, _)
_add_bytes_loop(buf, b, i, n) ==
    IF i >= n THEN buf
    ELSE _add_bytes_loop(
             [buf EXCEPT !.data[buf.writepos + 1] = b[i + 1],
                         !.writepos = buf.writepos + 1],
             b, i + 1, n)

(* Buffer.add_bytes(b) *)
Buffer_add_bytes_overrun(buf, b) ==
    IF Buffer_free(buf) = 0 THEN [err |-> "BufferFull", buf |-> buf]
    ELSE LET bytes_written == Len(b)
         IN [err |-> "", res |-> bytes_written,
             buf |-> [_add_bytes_loop(buf, b, 0, Min(Len(b), Buffer_free(buf)))
                         EXCEPT !.writepos = buf.writepos + bytes_written]]

Buffer_add_bytes_all(buf, b) ==
    IF Buffer_free(buf) = 0 THEN [err |-> "BufferFull", buf |-> buf]
    ELSE LET bytes_written == Len(b)
         IN [err |-> "", res |-> bytes_written,
             buf |-> _add_bytes_loop(buf, b, 0, Min(Len(b), Buffer_free(buf)))]

Buffer_add_bytes(buf, b) ==
    IF Buffer_free(buf) = 0 THEN [err |-> "BufferFull", buf |-> buf]
    ELSE LET bytes_written == Min(Len(b), Buffer_free(buf))
         IN [err |-> "", res |-> bytes_written,
             buf |-> _add_bytes_loop(buf, b, 0, bytes_written)]

(* lib.read(fd, self._data + writepos, n) returning r.res, with r.errno in *)
(* errno and the r.res bytes r.bytes stored from writepos on.              *)
lib_read_from_start(buf, r) ==
    IF r.res <= 0 THEN buf
    ELSE [buf EXCEPT !.data = [i \in 1..Len(buf.data) |->
              IF i <= r.res THEN r.bytes[i] ELSE buf.data[i]]]

lib_read(buf, r) ==
    IF r.res <= 0 THEN buf
    ELSE [buf EXCEPT !.data = [i \in 1..Len(buf.data) |->
              IF buf.writepos < i /\ i <= buf.writepos + r.res
              THEN r.bytes[i - buf.writepos] ELSE buf.data[i]]]

(* Buffer.read_from(fd); r is what the read system call does if issued.    *)
Buffer_read_from_eof_ok(buf, r) ==
    IF Buffer_free(buf) = 0
    THEN [err |-> "BufferFull", buf |-> buf, issued |-> FALSE]
    ELSE LET after == lib_read(buf, r)
         IN IF r.res = -1
            THEN [err |-> "OSError", errno |-> r.errno, buf |-> after, issued |-> TRUE]
            ELSE [err |-> "", res |-> r.res, issued |-> TRUE,
                  buf |-> [after EXCEPT !.writepos = after.writepos + r.res]]

Buffer_read_from(buf, r) ==
    IF Buffer_free(buf) = 0
    THEN [err |-> "BufferFull", buf |-> buf, issued |-> FALSE]
    ELSE LET after == lib_read(buf, r)
         IN IF r.res = -1
            THEN [err |-> "OSError", errno |-> r.errno, buf |-> after, issued |-> TRUE]
            ELSE IF r.res = 0
            THEN [err |-> "EOFError", buf |-> after, issued |-> TRUE]
            ELSE [err |-> "", res |-> r.res, issued |-> TRUE,
                  buf |-> [after EXCEPT !.writepos = after.writepos + r.res]]

(* Buffer.view(start, stop) of buffer identity b; stop is None or <<k>>.   *)
Buffer_view_nocheck_start(b, start, stop0) ==
    LET stop == IF stop0 = None THEN bufs[b].writepos ELSE stop0[1]
    IN IF stop < start \/ stop > bufs[b].writepos
       THEN [err |-> "ValueError"]
       ELSE [err |-> "", view |-> BufferView_init(b, 0, start, stop)]

Buffer_view(b, start, stop0) ==
    LET stop == IF stop0 = None THEN bufs[b].writepos ELSE stop0[1]
    IN IF stop < start \/ ~(0 <= start /\ start <= bufs[b].writepos)
          \/ stop > bufs[b].writepos
       THEN [err |-> "ValueError"]
       ELSE [err |-> "", view |-> BufferView_init(b, 0, start, stop)]

----------------------------------------------------------------------------
(* The pool and buffer specifications: a pool is constructed, and the      *)
(* caller acquires buffers, writes into them, takes views and releases.    *)
(* A released buffer stays referenced by the caller, who can go on calling *)
(* its methods (and release it again).                                     *)

MaxPoolCap == 1      \* largest pool capacity
MaxBufs == 2         \* most Buffer objects ever created
MaxPoolBufSize == 1  \* largest buffer_size of a pool of several buffers
MaxBufSize == 2      \* largest buffer_size where one buffer is exercised
MaxAdd == 3          \* longest argument of add_bytes

(* errno values a failed read leaves: EIO, EBADF. *)
Errnos == {5, 9}

(* The arguments of add_bytes tried on a pool of several buffers. *)
PoolWrites == {<<97>>, <<98, 97>>}

InitPoolWith(maxsize) ==
    /\ \E cap \in 0..MaxPoolCap, size \in 0..maxsize :
          LET p == BufferPool_init(cap, size)
          IN /\ capacity = p.capacity /\ buffer_size = p.buffer_size
             /\ freelist = p.freelist /\ num_free = p.num_free
             /\ bufs = p.bufs
    /\ held = {}
    /\ views = <<>>
    /\ needle = <<>> /\ gen = NoGen /\ pieces = <<>>
    /\ collator = NoCollator
    /\ group = NoGroup
    /\ last = NoLast

InitPool == InitPoolWith(MaxPoolBufSize)

InitBuffer == InitPoolWith(MaxBufSize)

(* buf = pool.buffer() *)
Acquire ==
    LET r == BufferPool_buffer
    IN /\ r.fresh => Len(bufs) < MaxBufs
       /\ num_free' = r.num_free
       /\ freelist' = r.freelist
       /\ bufs' = r.bufs
       /\ held' = held \cup {r.res}
       /\ last' = [op |-> "buffer", res |-> r.res, fresh |-> r.fresh]
       /\ UNCHANGED <<capacity, buffer_size, views, searchVars, collator, group>>

(* The caller's first pool.buffer(). *)
AcquireFirst == held = {} /\ Acquire

(* b.release(), also what Buffer.__exit__ does *)
Release(b) ==
    LET rb == BufferPool_return_buffer(b)
    IN /\ bufs' = [bufs EXCEPT ![b] = Buffer_release(bufs[b])]
       /\ freelist' = rb.freelist
       /\ num_free' = rb.num_free
       /\ last' = [op |-> "release", buf |-> b, pushed |-> rb.pushed]
       /\ UNCHANGED <<capacity, buffer_size, held, views, searchVars, collator, group>>

(* b.add_bytes(bs) *)
AddBytes(b, bs) ==
    LET r == Buffer_add_bytes(bufs[b], bs)
    IN /\ bufs' = [bufs EXCEPT ![b] = r.buf]
       /\ last' = IF r.err = ""
                  THEN [op |-> "add_bytes", buf |-> b, arg |-> bs, err |-> "", res |-> r.res]
                  ELSE [op |-> "add_bytes", buf |-> b, arg |-> bs, err |-> r.err]
       /\ UNCHANGED <<poolVars, views, searchVars, collator, group>>

(* What a read of up to n bytes can do: fail, report end of file, or store *)
(* 1..n bytes.                                                             *)
ReadOutcomes(n) ==
    {[res |-> -1, errno |-> e, bytes |-> <<>>] : e \in Errnos}
    \cup {[res |-> 0, errno |-> 0, bytes |-> <<>>]}
    \cup {[res |-> Len(bs), errno |-> 0, bytes |-> bs] :
             bs \in SeqsUpTo(Bytes, n) \ {<<>>}}

(* b.read_from(fd) *)
ReadFrom(b) ==
    \E r \in ReadOutcomes(Buffer_free(bufs[b])) :
       LET x == Buffer_read_from(bufs[b], r)
       IN /\ bufs' = [bufs EXCEPT ![b] = x.buf]
          /\ last' = IF ~x.issued
                     THEN [op |-> "read_from", buf |-> b, err |-> x.err, issued |-> FALSE]
                     ELSE IF x.err = "OSError"
                     THEN [op |-> "read_from", buf |-> b, err |-> x.err, issued |-> TRUE,
                           read |-> r, errno |-> x.errno]
                     ELSE IF x.err = "EOFError"
                     THEN [op |-> "read_from", buf |-> b, err |-> x.err, issued |-> TRUE,
                           read |-> r]
                     ELSE [op |-> "read_from", buf |-> b, err |-> "", issued |-> TRUE,
                           read |-> r, res |-> x.res]
          /\ UNCHANGED <<poolVars, views, searchVars, collator, group>>

(* b.view(start, stop) *)
View(b, start, stop) ==
    LET r == Buffer_view(b, start, stop)
    IN /\ last' = IF r.err = ""
                  THEN [op |-> "view", buf |-> b, start |-> start, stop |-> stop,
                        err |-> "", res |-> r.view]
                  ELSE [op |-> "view", buf |-> b, start |-> start, stop |-> stop,
                        err |-> r.err]
       /\ UNCHANGED <<poolVars, bufs, views, searchVars, collator, group>>

ViewArgs == -1..(MaxBufSize + 1)

OptViewArgs == {None} \cup {<<k>> : k \in ViewArgs}

(* Several buffers, acquired and released in any order. *)
NextPool ==
    \/ Acquire
    \/ \E b \in held : Release(b)
    \/ \E b \in held, bs \in PoolWrites : AddBytes(b, bs)

SpecPool == InitPool /\ [][NextPool]_vars

(* One buffer, every call on it with every argument. *)
NextBuffer ==
    \/ AcquireFirst
    \/ \E b \in held : Release(b)
    \/ \E b \in held, bs \in SeqsUpTo(Bytes, MaxAdd) : AddBytes(b, bs)
    \/ \E b \in held : ReadFrom(b)
    \/ \E b \in held, start \in ViewArgs, stop \in OptViewArgs : View(b, start, stop)

SpecBuffer == InitBuffer /\ [][NextBuffer]_vars

----------------------------------------------------------------------------
(* Claims about the pool. *)

(* C3: a release that finds the free-list below capacity is followed, when *)
(* the next call is buffer(), by that call returning the released buffer   *)
(* with write cursor 0; writing does not touch the free-list, and with     *)
(* capacity 1 every buffer() leaves the free-list empty, so the release of *)
(* the acquired buffer does find room.                                     *)
C3_RoundTripStep ==
    /\ (last.op = "release" /\ last.pushed /\ last'.op = "buffer")
          => /\ last'.res = last.buf
             /\ ~last'.fresh
             /\ bufs'[last.buf].writepos = 0
    /\ last'.op = "release" => (last'.pushed <=> num_free # capacity)
    /\ last'.op = "add_bytes" => UNCHANGED <<freelist, num_free>>

C4_PoolStep ==
    /\ last'.op = "buffer" =>
          IF num_free > 0
          THEN /\ last'.res = freelist[num_free] /\ last'.res \in DOMAIN bufs
               /\ num_free' = num_free - 1
               /\ bufs' = bufs
          ELSE /\ last'.res \notin DOMAIN bufs /\ last'.res \in DOMAIN bufs'
               /\ Buffer_capacity(bufs'[last'.res]) = buffer_size
               /\ bufs'[last'.res].writepos = 0
               /\ UNCHANGED <<freelist, num_free>>
    /\ (last'.op = "release" /\ num_free = capacity) => UNCHANGED <<freelist, num_free>>

(* C4, over every behaviour: the free-list bounds, buffer() always having  *)
(* an outcome, and the step above.                                         *)
C4_PoolBounds ==
    /\ [](/\ 0 <= num_free /\ num_free <= capacity
          /\ Len(freelist) = capacity
          /\ (Len(bufs) < MaxBufs => ENABLED Acquire))
    /\ [][C4_PoolStep]_vars

(* A release has just found the free-list full and the buffer was dropped, *)
(* and the pool has handed out a buffer it had to allocate.                *)
C4_Witness ==
    /\ capacity >= 1
    /\ last.op = "release" /\ ~last.pushed
    /\ num_free = capacity
    /\ \A i \in 1..capacity : freelist[i] # last.buf
    /\ Len(bufs) > capacity

----------------------------------------------------------------------------
(* Claims about one buffer. *)

(* C5: the write cursor stays within 0..capacity and the capacity never    *)
(* changes; read_from and add_bytes never decrease the cursor, and a       *)
(* cursor that decreases does so in a release of that buffer, to 0.        *)
C5_CursorStep ==
    \A b \in DOMAIN bufs :
       /\ Buffer_capacity(bufs'[b]) = Buffer_capacity(bufs[b])
       /\ last'.op \in {"read_from", "add_bytes", "view", "buffer"}
             => bufs'[b].writepos >= bufs[b].writepos
       /\ bufs'[b].writepos < bufs[b].writepos
             => (last'.op = "release" /\ last'.buf = b /\ bufs'[b].writepos = 0)

(* C5, over every behaviour: the cursor bounds and the step above. *)
C5_Cursor ==
    /\ [](\A b \in DOMAIN bufs :
             0 <= bufs[b].writepos /\ bufs[b].writepos <= Buffer_capacity(bufs[b]))
    /\ [][C5_CursorStep]_vars

(* A buffer whose cursor had reached its capacity has been released.       *)
C5_Witness ==
    /\ last.op = "release"
    /\ Buffer_capacity(bufs[last.buf]) = MaxBufSize
    /\ bufs[last.buf].data[MaxBufSize] # 0
    /\ bufs[last.buf].writepos = 0

(* C6: add_bytes on a buffer with f > 0 free bytes stores the first        *)
(* min(len, f) bytes of its argument from the old cursor on, changes no    *)
(* other byte, returns that count and advances the cursor by it; with      *)
(* f = 0 it raises BufferFull and changes nothing.                         *)
C6_AppendStep ==
    last'.op = "add_bytes" =>
       LET b == last'.buf
           old == bufs[b]
           new == bufs'[b]
           f == Buffer_free(old)
           n == Min(Len(last'.arg), f)
       IN IF f > 0
          THEN /\ last'.err = ""
               /\ last'.res = n
               /\ new.writepos = old.writepos + n
               /\ \A i \in 1..n : new.data[old.writepos + i] = last'.arg[i]
               /\ \A i \in 1..Len(old.data) :
                     (i <= old.writepos \/ i > old.writepos + n) => new.data[i] = old.data[i]
               /\ \A c \in DOMAIN bufs \ {b} : bufs'[c] = bufs[c]
          ELSE /\ last'.err = "BufferFull"
               /\ bufs' = bufs

(* C6, over every step: add_bytes stores, counts and advances as above. *)
C6_Append == [][C6_AppendStep]_vars

(* A short write: two of three bytes fit. *)
C6_Witness ==
    /\ last.op = "add_bytes" /\ last.err = ""
    /\ last.arg = <<97, 98, 97>>
    /\ last.res = 2
    /\ bufs[last.buf].data = <<97, 98>>

(* C7: read_from raises BufferFull, without issuing the read, when no byte *)
(* is free; EOFError when the read returns 0; OSError with the read's      *)
(* errno when it returns -1; in these cases the buffer is unchanged.  Else *)
(* it returns the read's count r, 1 <= r <= free, and the cursor advances  *)
(* by r.                                                                   *)
C7_ReadStep ==
    last'.op = "read_from" =>
       LET b == last'.buf
           old == bufs[b]
           new == bufs'[b]
           f == Buffer_free(old)
       IN /\ f = 0 <=> last'.err = "BufferFull"
          /\ f = 0 <=> ~last'.issued
          /\ last'.issued =>
                /\ last'.read.res = 0 <=> last'.err = "EOFError"
                /\ last'.read.res = -1 <=> last'.err = "OSError"
                /\ last'.err = "OSError" => last'.errno = last'.read.errno
                /\ last'.err = "" =>
                      /\ last'.res = last'.read.res
                      /\ 1 <= last'.res /\ last'.res <= f
                      /\ new.writepos = old.writepos + last'.res
                      /\ \A i \in 1..old.writepos : new.data[i] = old.data[i]
          /\ last'.err # "" => bufs' = bufs

(* C7, over every step: read_from fails or advances as above. *)
C7_Read == [][C7_ReadStep]_vars

(* A failed read (EBADF) on a buffer that holds a byte. *)
C7_Witness ==
    /\ last.op = "read_from" /\ last.err = "OSError"
    /\ last.errno = 9
    /\ bufs[last.buf].writepos = 1

(* C8: view(start, stop) raises ValueError exactly when stop < start,      *)
(* start < 0, start > cursor or stop > cursor (stop defaulting to the      *)
(* cursor); else it returns a view of stop - start bytes at offset start   *)
(* of this buffer; the buffer is unchanged either way.                     *)
C8_ViewStep ==
    last'.op = "view" =>
       LET b == last'.buf
           c == bufs[b].writepos
           start == last'.start
           stop == IF last'.stop = None THEN c ELSE last'.stop[1]
           bad == stop < start \/ start < 0 \/ start > c \/ stop > c
       IN /\ bad <=> last'.err = "ValueError"
          /\ ~bad => /\ last'.err = ""
                     /\ last'.res = [buf |-> b, off |-> start, len |-> stop - start]
          /\ bufs' = bufs

(* C8, over every step: view refuses or returns as above. *)
C8_View == [][C8_ViewStep]_vars

(* A view of the second byte, stop left to default to the cursor. *)
C8_Witness ==
    /\ last.op = "view" /\ last.err = ""
    /\ last.start = 1 /\ last.stop = None
    /\ last.res.len = 1 /\ last.res.off = 1

----------------------------------------------------------------------------
(* Views, groups and the collator. *)

(* BufferGroup.__init__(views) *)
BufferGroup_init(vs) ==
    [views |-> vs,
     length |-> LET RECURSIVE sum(_)
                    sum(i) == IF i > Len(vs) THEN 0 ELSE vs[i].len + sum(i + 1)
                IN sum(1)]

(* The bytes BufferGroup.__iter__ goes through: each view's, in order. *)
RECURSIVE GroupBytesFrom(_, _)
GroupBytesFrom(vs, i) ==
    IF i > Len(vs) THEN <<>> ELSE ViewBytes(vs[i]) \o GroupBytesFrom(vs, i + 1)

GroupBytes(g) == GroupBytesFrom(g.views, 1)

(* BufferView.__add__(other), other a BufferView *)
BufferView_add_any_buffer(a, b) ==
    IF a.off + a.len = b.off
    THEN [kind |-> "view", view |-> BufferView_init(a.buf, a.off, 0, a.len + b.len)]
    ELSE [kind |-> "group", group |-> BufferGroup_init(<<a, b>>)]

BufferView_add(a, b) ==
    IF a.buf = b.buf /\ a.off + a.len = b.off
    THEN [kind |-> "view", view |-> BufferView_init(a.buf, a.off, 0, a.len + b.len)]
    ELSE [kind |-> "group", group |-> BufferGroup_init(<<a, b>>)]

(* len() and the bytes of what BufferView.__add__ returns. *)
ResultLen(r) == IF r.kind = "view" THEN r.view.len ELSE r.group.length

ResultBytes(r) == IF r.kind = "view" THEN ViewBytes(r.view) ELSE GroupBytes(r.group)

(* BufferCollator: the pending entries and their total length.  An entry   *)
(* is a view and the identity of its object: the index in `views` of a     *)
(* view the caller appended, 0 for a view the collator made by merging.    *)
(* `appended` lists the identities appended since the last collapse; it is *)
(* kept for stating the claims and read by no operation.                   *)
BufferCollator_init == [views |-> <<>>, total_length |-> 0, appended |-> <<>>]

(* BufferCollator.append(view), view the object of identity id *)
BufferCollator_append_nomerge(c, id, v) ==
    [views |-> Append(c.views, [id |-> id, view |-> v]),
     total_length |-> c.total_length + v.len,
     appended |-> Append(c.appended, id)]

BufferCollator_append(c, id, v) ==
    LET n == Len(c.views)
        lastv == c.views[n].view
    IN [views |-> IF n > 0 /\ lastv.buf = v.buf /\ lastv.off + lastv.len = v.off
                  THEN [c.views EXCEPT ![n] =
                           [id |-> 0,
                            view |-> BufferView_init(lastv.buf, lastv.off, 0,
                                                     lastv.len + v.len)]]
                  ELSE Append(c.views, [id |-> id, view |-> v]),
        total_length |-> c.total_length + v.len,
        appended |-> Append(c.appended, id)]

(* BufferCollator.collapse(): the cleared collator and the result, the one *)
(* pending entry itself or a view over a new buffer holding a copy.        *)
BufferCollator_collapse_keep(c) ==
    [collator |-> c,
     res |-> IF Len(c.views) = 1
             THEN [copied |-> FALSE, id |-> c.views[1].id, view |-> c.views[1].view]
             ELSE [copied |-> TRUE, id |-> 0,
                   data |-> GroupBytesFrom([i \in 1..Len(c.views) |-> c.views[i].view], 1),
                   len |-> c.total_length]]

BufferCollator_collapse(c) ==
    [collator |-> BufferCollator_init,
     res |-> IF Len(c.views) = 1
             THEN [copied |-> FALSE, id |-> c.views[1].id, view |-> c.views[1].view]
             ELSE [copied |-> TRUE, id |-> 0,
                   data |-> GroupBytesFrom([i \in 1..Len(c.views) |-> c.views[i].view], 1),
                   len |-> c.total_length]]

MaxViewBuf == 2    \* largest buffer_size where views are combined
MaxViews == 2      \* most views the caller takes
MaxAppend == 2     \* most appends between two collapses

(* Buffer k of size n after add_bytes of w bytes: "abc..." in buffer 1,    *)
(* "123..." in buffer 2.                                                   *)
Written(k, n, w) ==
    [data |-> [i \in 1..n |-> IF i <= w THEN (IF k = 1 THEN 96 ELSE 48) + i ELSE 0],
     writepos |-> w]

(* A pool of capacity 0 has handed out two buffers and the caller has      *)
(* filled each.                                                            *)
InitView ==
    /\ \E n \in 1..MaxViewBuf :
          /\ buffer_size = n
          /\ bufs = <<Written(1, n, n), Written(2, n, n)>>
    /\ capacity = 0 /\ freelist = <<>> /\ num_free = 0
    /\ held = {1, 2}
    /\ views = <<>>
    /\ needle = <<>> /\ gen = NoGen /\ pieces = <<>>
    /\ collator = BufferCollator_init
    /\ group = NoGroup
    /\ last = NoLast

(* v = b.view(start, stop), kept by the caller *)
TakeView(b, start, stop) ==
    LET r == Buffer_view(b, start, stop)
    IN /\ Len(views) < MaxViews
       /\ views' = IF r.err = "" THEN Append(views, r.view) ELSE views
       /\ last' = IF r.err = ""
                  THEN [op |-> "view", err |-> "", res |-> r.view]
                  ELSE [op |-> "view", err |-> r.err]
       /\ UNCHANGED <<poolVars, bufs, searchVars, collator, group>>

(* views[i] + views[j] *)
Add(i, j) ==
    /\ last' = [op |-> "add", a |-> i, b |-> j, res |-> BufferView_add(views[i], views[j])]
    /\ UNCHANGED <<poolVars, bufs, views, searchVars, collator, group>>

(* collator.append(views[i]) *)
CollatorAppend(i) ==
    /\ Len(collator.appended) < MaxAppend
    /\ collator' = BufferCollator_append(collator, i, views[i])
    /\ last' = [op |-> "append"]
    /\ UNCHANGED <<poolVars, bufs, views, searchVars, group>>

(* collator.collapse(); `before` is the number of views the call right      *)
(* before had collapsed, -1 when that call was not a collapse.             *)
CollatorCollapse ==
    LET r == BufferCollator_collapse(collator)
    IN /\ collator' = r.collator
       /\ last' = [op |-> "collapse", appended |-> collator.appended, res |-> r.res,
                   before |-> IF last.op = "collapse" THEN Len(last.appended) ELSE -1]
       /\ UNCHANGED <<poolVars, bufs, views, searchVars, group>>

TakeAnyView ==
    \E b \in held, start \in 0..MaxViewBuf,
       stop \in {None} \cup {<<k>> : k \in 0..MaxViewBuf} : TakeView(b, start, stop)

(* Views taken and concatenated. *)
NextView ==
    \/ TakeAnyView
    \/ \E i \in DOMAIN views, j \in DOMAIN views : Add(i, j)

SpecView == InitView /\ [][NextView]_vars

(* Views taken and fed to the collator. *)
NextCollator ==
    \/ TakeAnyView
    \/ \E i \in DOMAIN views : CollatorAppend(i)
    \/ CollatorCollapse

SpecCollator == InitView /\ [][NextCollator]_vars

(* Two views are byte-adjacent in the same buffer. *)
Adjacent(a, b) == a.buf = b.buf /\ a.off + a.len = b.off

(* C9: a + b is one view over the union range when a and b have the same   *)
(* buffer and a ends where b starts, and else the group [a, b]; its length *)
(* is |a| + |b| and its bytes are a's followed by b's.                     *)
C9_Concat ==
    last.op = "add" =>
       LET a == views[last.a]
           b == views[last.b]
       IN /\ Adjacent(a, b) =>
                /\ last.res.kind = "view"
                /\ last.res.view = [buf |-> a.buf, off |-> a.off, len |-> a.len + b.len]
          /\ ~Adjacent(a, b) =>
                /\ last.res.kind = "group"
                /\ last.res.group.views = <<a, b>>
          /\ ResultLen(last.res) = a.len + b.len
          /\ ResultBytes(last.res) = ViewBytes(a) \o ViewBytes(b)

(* One-byte views of different buffers, the first ending at the offset the *)
(* second starts at: a group, not a merged view.                           *)
C9_Witness ==
    /\ last.op = "add"
    /\ views[last.a].buf # views[last.b].buf
    /\ views[last.a].off + views[last.a].len = views[last.b].off
    /\ views[last.a].len = 1 /\ views[last.b].len = 1
    /\ last.res.kind = "group"
    /\ ResultBytes(last.res) = <<97, 50>>

(* The merged case of C9: abutting views of one buffer. *)
C9_WitnessMerged ==
    /\ last.op = "add"
    /\ Adjacent(views[last.a], views[last.b])
    /\ views[last.a].len = 1 /\ views[last.b].len = 1
    /\ last.res.kind = "view"

(* C10: collapse after appending one view returns that view object; after  *)
(* appending two views over abutting ranges of one buffer, in order, it    *)
(* returns one view of that buffer over the union range, not a copy.       *)
C10_Contiguous ==
    last.op = "collapse" =>
       /\ Len(last.appended) = 1 =>
             /\ ~last.res.copied
             /\ last.res.id = last.appended[1]
             /\ last.res.view = views[last.appended[1]]
       /\ (Len(last.appended) = 2
             /\ Adjacent(views[last.appended[1]], views[last.appended[2]])) =>
             LET a == views[last.appended[1]]
                 b == views[last.appended[2]]
             IN /\ ~last.res.copied
                /\ last.res.view = [buf |-> a.buf, off |-> a.off, len |-> a.len + b.len]

(* Two one-byte views of buffer 1, abutting, collapsed into "ab". *)
C10_Witness ==
    /\ last.op = "collapse"
    /\ Len(last.appended) = 2
    /\ Adjacent(views[last.appended[1]], views[last.appended[2]])
    /\ views[last.appended[1]].len = 1 /\ views[last.appended[2]].len = 1
    /\ ~last.res.copied
    /\ ViewBytes(last.res.view) = <<97, 98>>

(* len() of what collapse returned. *)
CollapsedLen(res) == IF res.copied THEN res.len ELSE res.view.len

(* The bytes of what collapse returned. *)
CollapsedBytes(res) == IF res.copied THEN res.data ELSE ViewBytes(res.view)

(* The bytes of the views of identities ids, in order. *)
AppendedBytes(ids) == GroupBytesFrom([i \in 1..Len(ids) |-> views[ids[i]]], 1)

(* C11: after every collapse the collator holds no entry and its running   *)
(* length is 0, on the single-entry path and on the copy path alike; the   *)
(* result holds what was appended since the collapse before and nothing    *)
(* else, so a collapse with no append since the last one returns a result  *)
(* of length 0.                                                            *)
C11_CollapseClears ==
    last.op = "collapse" =>
       /\ collator.views = <<>>
       /\ collator.total_length = 0
       /\ CollapsedBytes(last.res) = AppendedBytes(last.appended)
       /\ CollapsedLen(last.res) = Len(AppendedBytes(last.appended))
       /\ last.appended = <<>> => CollapsedLen(last.res) = 0

(* A collapse that follows, with no append between, a collapse that had    *)
(* returned views: it returns an empty result.                             *)
C11_Witness ==
    /\ last.op = "collapse"
    /\ last.appended = <<>>
    /\ last.before >= 1
    /\ last.res.copied /\ last.res.len = 0
    /\ collator.views = <<>> /\ collator.total_length = 0

----------------------------------------------------------------------------
(* Claims about find with start and stop. *)

(* The matches of N in H that lie within [start, stop). *)
MatchesIn(H, N, start, stop) ==
    {i \in Matches(H, N) : start <= i /\ i + Len(N) <= stop}

(* C12: for a non-empty needle, find(needle, start, stop) clamps start to  *)
(* 0 and stop to the length and returns the smallest index of a match      *)
(* within [start, stop), or -1; it returns -1 when stop < start, and with  *)
(* a stop >= 0 passed it reports no match outside [start, stop).           *)
C12_FindRange ==
    (last.op = "find" /\ Len(needle) >= 1) =>
       LET L == Len(Hay)
           start == Max(last.start, 0)
           stop == IF last.stop = None THEN L ELSE Min(last.stop[1], L)
           M == MatchesIn(Hay, needle, start, stop)
       IN /\ last.res = IF M = {} THEN -1 ELSE SetMin(M)
          /\ (last.stop # None /\ last.stop[1] < last.start) => last.res = -1
          /\ (last.stop # None /\ last.stop[1] >= 0 /\ last.res # -1) =>
                (last.start <= last.res /\ last.res + Len(needle) <= last.stop[1])

(* C12 for every stop but an explicit 0. *)
C12_FindRangeNonzeroStop ==
    (last.op = "find" /\ last.stop # <<0>>) => C12_FindRange

(* C13 as first stated: for an empty needle find returns start clamped     *)
(* into 0..len, whatever the view holds.                                   *)
C13_FindEmptyClamped ==
    (last.op = "find" /\ needle = <<>>) =>
       last.res = Min(Max(last.start, 0), Len(Hay))

(* C13: for an empty needle, whatever the view holds, find returns start   *)
(* with a negative start taken as 0, unless that is beyond the length or   *)
(* beyond a passed stop other than 0, when it returns -1; so find("") is 0 *)
(* and find("", s) is s for 0 <= s <= len.                                 *)
C13_FindEmpty ==
    (last.op = "find" /\ needle = <<>>) =>
       LET L == Len(Hay)
           start == Max(last.start, 0)
           beyond == \/ start > L
                     \/ (last.stop # None /\ last.stop # <<0>> /\ last.stop[1] < start)
       IN /\ last.res = IF beyond THEN -1 ELSE start
          /\ (last.start = 0 /\ last.stop = None) => last.res = 0
          /\ (0 <= last.start /\ last.start <= L /\ last.stop = None)
                => last.res = last.start

(* find("", 2) on "ab" returns 2, the view's length. *)
C13_Witness ==
    /\ last.op = "find" /\ needle = <<>>
    /\ Hay = <<97, 98>>
    /\ last.start = 2 /\ last.stop = None
    /\ last.res = 2

----------------------------------------------------------------------------
(* Claims about split. *)

(* The number of leftmost non-overlapping occurrences of N in H from       *)
(* index `from` on.                                                        *)
RECURSIVE CountOcc(_, _, _)
CountOcc(H, N, from) ==
    LET M == {i \in Matches(H, N) : i >= from}
    IN IF M = {} THEN 0 ELSE 1 + CountOcc(H, N, SetMin(M) + Len(N))

(* The index right after the k-th of those occurrences (k at most their    *)
(* number).                                                                *)
RECURSIVE AfterOcc(_, _, _, _)
AfterOcc(H, N, from, k) ==
    IF k = 0 THEN from
    ELSE AfterOcc(H, N, SetMin({i \in Matches(H, N) : i >= from}) + Len(N), k - 1)

(* The number of splits split(needle, maxsplit) makes on the view. *)
SplitsExpected ==
    LET n == CountOcc(Hay, needle, 0)
    IN IF last.maxsplit = -1 THEN n ELSE Min(last.maxsplit, n)

(* The generator is live: returned by split and not yet exhausted. *)
GenLive == gen.pc \in {"init", "loop", "last"}

(* C14, a resumption of the generator: it yields one more piece, or, when  *)
(* it was suspended at its final yield, it ends and yields nothing.        *)
C14_ResumeStep ==
    (Len(needle) >= 1 /\ GenLive /\ gen'.pc \notin {"init", "none"}) =>
       IF gen.pc = "last"
       THEN gen'.pc = "done" /\ pieces' = pieces
       ELSE /\ gen'.pc \in {"loop", "last"}
            /\ Len(pieces') = Len(pieces) + 1
            /\ SubSeq(pieces', 1, Len(pieces)) = pieces

(* C14: a generator of split with a non-empty separator never yields more  *)
(* than splits + 1 pieces, where splits is the number n of leftmost        *)
(* non-overlapping occurrences for maxsplit -1 and min(maxsplit, n) for    *)
(* maxsplit >= 0; once at its final yield or exhausted it has yielded      *)
(* exactly splits + 1 >= 1 pieces, the last being the rest of the view     *)
(* after the last split; and every resumption yields a piece or ends it,   *)
(* so it is exhausted after splits + 2 resumptions.                        *)
C14_SplitCount ==
    /\ [](Len(needle) >= 1 => gen.pc # "raised")
    /\ []((Len(needle) >= 1 /\ (GenLive \/ gen.pc = "done"))
             => Len(pieces) <= SplitsExpected + 1)
    /\ []((Len(needle) >= 1 /\ gen.pc \in {"last", "done"}) =>
             /\ Len(pieces) = SplitsExpected + 1
             /\ LET rest == pieces[Len(pieces)]
                    from == AfterOcc(Hay, needle, 0, SplitsExpected)
                IN rest = [buf |-> views[1].buf, off |-> from, len |-> Len(Hay) - from])
    /\ [][C14_ResumeStep]_vars

(* "a" splits "aabab" at most twice: three pieces, the last "ab" still     *)
(* holding the separator.                                                  *)
C14_Witness ==
    /\ gen.pc = "done"
    /\ needle = <<97>> /\ Hay = <<97, 97, 98, 97, 98>>
    /\ last.maxsplit = 2
    /\ Len(pieces) = 3
    /\ ViewBytes(pieces[3]) = <<98, 97, 98>>

(* An empty view split by "ab": one empty piece. *)
C14_WitnessEmpty ==
    /\ gen.pc = "done"
    /\ Hay = <<>> /\ needle = <<97, 98>>
    /\ Len(pieces) = 1 /\ pieces[1].len = 0

(* C15: split with a zero-length separator raises ValueError at the call   *)
(* itself: no generator is returned and no piece is ever produced.         *)
C15_SplitEmptyAtCall ==
    (last.op \in {"split", "buffer_split"} /\ needle = <<>>) =>
       /\ last.err = "ValueError"
       /\ gen = NoGen
       /\ pieces = <<>>

(* C15 of BufferView.split of fast_buffer.py alone. *)
C15_ViewSplitEmptyAtCall ==
    (last.op = "split" /\ needle = <<>>) =>
       /\ last.err = "ValueError"
       /\ gen = NoGen
       /\ pieces = <<>>

----------------------------------------------------------------------------
(* BufferGroup operations.  View and list indices are counted from 0, as   *)
(* in the code; a group's views are the sequence g.views.                  *)

(* BufferView.__getitem__(idx), idx an integer: the one-byte view, or the  *)
(* error.                                                                  *)
BufferView_getitem(v, idx0) ==
    LET idx == IF idx0 < 0 THEN idx0 + v.len ELSE idx0
    IN IF ~(0 <= idx /\ idx < v.len) THEN [err |-> "IndexError"]
       ELSE BufferView_getslice(v, <<idx>>, <<idx + 1>>)

(* A list slice l[lo:hi] with 0 <= lo and 0 <= hi. *)
list_slice(l, lo, hi) ==
    IF lo >= Min(hi, Len(l)) THEN <<>> ELSE SubSeq(l, lo + 1, Min(hi, Len(l)))

(* BufferGroup._find_positions_for_index(idx), the loop from view i on *)
RECURSIVE _find_positions_loop(_, _, _)
_find_positions_loop(vs, i, idx) ==
    IF i >= Len(vs) THEN [err |-> "IndexError"]
    ELSE IF idx < vs[i + 1].len THEN [err |-> "", view_idx |-> i, idx |-> idx]
    ELSE _find_positions_loop(vs, i + 1, idx - vs[i + 1].len)

_find_positions_for_index(g, idx) == _find_positions_loop(g.views, 0, idx)

(* BufferGroup.__getitem__(slice(start, stop, step)); start and stop are   *)
(* None or <<k>>, step is 1 for None.  The result is a view, a group or    *)
(* the error.                                                              *)
BufferGroup_getslice(g, start0, stop0, step) ==
    LET ix == slice_indices(start0, stop0, g.length)
        start == ix[1]
        stop == ix[2]
        sp == _find_positions_for_index(g, start)
        first == BufferView_getslice(g.views[sp.view_idx + 1], <<sp.idx>>, None).view
    IN IF step # 1 THEN [err |-> "ValueError"]
       ELSE IF stop < start THEN [err |-> "ValueError"]
       ELSE IF sp.err # "" THEN [err |-> sp.err]
       ELSE IF stop = g.length
       THEN [err |-> "", kind |-> "group",
             group |-> BufferGroup_init(
                 <<first>> \o list_slice(g.views, sp.view_idx + 1, Len(g.views)))]
       ELSE LET ep == _find_positions_for_index(g, stop)
            IN IF ep.err # "" THEN [err |-> ep.err]
               ELSE IF sp.view_idx = ep.view_idx
               THEN LET r == BufferView_getslice(g.views[sp.view_idx + 1],
                                                 <<sp.idx>>, <<ep.idx>>)
                    IN IF r.err # "" THEN r
                       ELSE [err |-> "", kind |-> "view", view |-> r.view]
               ELSE [err |-> "", kind |-> "group",
                     group |-> BufferGroup_init(
                         <<first>>
                         \o list_slice(g.views, sp.view_idx + 1, ep.view_idx - 1)
                         \o <<BufferView_getslice(g.views[ep.view_idx + 1],
                                                  None, <<ep.idx>>).view>>)]

(* BufferGroup.__getitem__(idx), idx an integer *)
BufferGroup_getitem_no_negative(g, idx0) ==
    LET idx == idx0
        p == _find_positions_for_index(g, idx)
    IN IF ~(0 <= idx /\ idx < g.length) THEN [err |-> "IndexError"]
       ELSE IF p.err # "" THEN [err |-> p.err]
       ELSE BufferView_getitem(g.views[p.view_idx + 1], p.idx)

BufferGroup_getitem(g, idx0) ==
    LET idx == IF idx0 < 0 THEN idx0 + g.length ELSE idx0
        p == _find_positions_for_index(g, idx)
    IN IF ~(0 <= idx /\ idx < g.length) THEN [err |-> "IndexError"]
       ELSE IF p.err # "" THEN [err |-> p.err]
       ELSE BufferView_getitem(g.views[p.view_idx + 1], p.idx)

(* BufferGroup.__add__(other), other a BufferGroup *)
BufferGroup_add(g, other) == BufferGroup_init(g.views \o other.views)

(* The loop of BufferGroup.find over the views from view i on. *)
RECURSIVE _group_find_loop(_, _, _, _)
_group_find_loop(vs, i, sub, overall_pos) ==
    IF i >= Len(vs) THEN -1
    ELSE LET pos == BufferView_find(vs[i + 1], sub, 0, None)
         IN IF pos # -1 THEN overall_pos + pos
            ELSE _group_find_loop(vs, i + 1, sub, overall_pos + vs[i + 1].len)

(* BufferGroup.find(needle, start, stop); stop is None or <<k>>. *)
BufferGroup_find(g, sub, start0, stop0) ==
    LET stop1 == IF stop0 = None \/ stop0 = <<0>> THEN g.length ELSE stop0[1]
        start == IF start0 < 0 THEN 0 ELSE start0
        stop == IF stop1 > g.length THEN g.length ELSE stop1
    IN IF stop - start < 0 THEN [err |-> "", res |-> -1]
       ELSE IF Len(sub) = 0 THEN [err |-> "", res |-> start]
       ELSE IF Len(sub) = 1
       THEN [err |-> "", res |-> _group_find_loop(g.views, 0, sub, 0)]
       ELSE [err |-> "NotImplementedError"]

(* The byte classes of isspace, isdigit and isalpha. *)
_is_class(cls, ch) ==
    IF cls = "space" THEN ~(ch # 32 /\ ~(9 <= ch /\ ch <= 13))
    ELSE IF cls = "digit" THEN 48 <= ch /\ ch <= 57
    ELSE (65 <= ch /\ ch <= 90) \/ (97 <= ch /\ ch <= 122)

(* BufferView.isspace / isdigit / isalpha, by the class tested *)
BufferView_isclass(v, cls) ==
    IF v.len = 0 THEN FALSE
    ELSE \A i \in 0..(v.len - 1) : _is_class(cls, ViewAt(v, i))

(* BufferGroup.isspace / isalpha / isdigit, by the class tested *)
BufferGroup_isclass(g, cls) ==
    IF g.length = 0 THEN FALSE
    ELSE \A i \in 1..Len(g.views) : BufferView_isclass(g.views[i], cls)

----------------------------------------------------------------------------
(* The group specification: the caller fills one buffer with "a1", builds  *)
(* a group from views of it by view + view, group + group and slicing, and *)
(* then asks the group for a slice or a byte.  The questions change no     *)
(* object, so each behaviour builds first and asks once.                   *)

MaxGroupViews == 4   \* most views in a group the caller builds

(* The bytes the caller writes: "a1". *)
GroupData == <<97, 49>>

InitGroup ==
    /\ buffer_size = Len(GroupData)
    /\ bufs = <<[data |-> GroupData, writepos |-> Len(GroupData)]>>
    /\ capacity = 0 /\ freelist = <<>> /\ num_free = 0
    /\ held = {1}
    /\ views = <<>>
    /\ needle = <<>> /\ gen = NoGen /\ pieces = <<>>
    /\ collator = NoCollator
    /\ group = NoGroup
    /\ last = NoLast

Building == last.op \in {"none", "build"}

(* len(group), 0 while the caller has no group. *)
GroupLen == IF group = NoGroup THEN 0 ELSE group.length

BuildLast == [op |-> "build"]

GroupPos == 0..Len(GroupData)

(* buf.view(s1, e1) + buf.view(s2, e2), kept when it is a group *)
BuildConcat(s1, e1, s2, e2) ==
    LET a == Buffer_view(1, s1, <<e1>>)
        b == Buffer_view(1, s2, <<e2>>)
        r == BufferView_add(a.view, b.view)
    IN /\ Building
       /\ a.err = "" /\ b.err = ""
       /\ r.kind = "group"
       /\ group' = r.group
       /\ last' = BuildLast
       /\ UNCHANGED <<poolVars, bufs, views, searchVars, collator>>

(* group = group + (buf.view(s1, e1) + buf.view(s2, e2)) *)
BuildAddViews(s1, e1, s2, e2) ==
    LET a == Buffer_view(1, s1, <<e1>>)
        b == Buffer_view(1, s2, <<e2>>)
        r == BufferView_add(a.view, b.view)
    IN /\ Building
       /\ group # NoGroup
       /\ Len(group.views) + 2 <= MaxGroupViews
       /\ a.err = "" /\ b.err = ""
       /\ r.kind = "group"
       /\ group' = BufferGroup_add(group, r.group)
       /\ last' = BuildLast
       /\ UNCHANGED <<poolVars, bufs, views, searchVars, collator>>

(* group = group + group *)
BuildAddSelf ==
    /\ Building
    /\ group # NoGroup
    /\ 2 * Len(group.views) <= MaxGroupViews
    /\ group' = BufferGroup_add(group, group)
    /\ last' = BuildLast
    /\ UNCHANGED <<poolVars, bufs, views, searchVars, collator>>

(* group = group[start:stop], kept when it is a group *)
BuildSlice(start, stop) ==
    LET r == BufferGroup_getslice(group, <<start>>, <<stop>>, 1)
    IN /\ Building
       /\ group # NoGroup
       /\ r.err = "" /\ r.kind = "group"
       /\ group' = r.group
       /\ last' = BuildLast
       /\ UNCHANGED <<poolVars, bufs, views, searchVars, collator>>

Build ==
    \/ \E s1 \in GroupPos, e1 \in GroupPos, s2 \in GroupPos, e2 \in GroupPos :
          BuildConcat(s1, e1, s2, e2) \/ BuildAddViews(s1, e1, s2, e2)
    \/ BuildAddSelf
    \/ \E start \in 0..GroupLen, stop \in 0..GroupLen : BuildSlice(start, stop)

(* The slice bounds tried on a group of length len: None and every integer *)
(* from one below 0 to one beyond len.                                     *)
OptSliceArgs(len) == {None} \cup {<<k>> : k \in -1..(len + 1)}

(* group[start:stop:step] *)
GroupSlice(start, stop, step) ==
    /\ Building
    /\ group # NoGroup
    /\ last' = [op |-> "getslice", start |-> start, stop |-> stop, step |-> step,
                res |-> BufferGroup_getslice(group, start, stop, step)]
    /\ UNCHANGED <<poolVars, bufs, views, searchVars, collator, group>>

(* group[idx] *)
GroupIndex(idx) ==
    /\ Building
    /\ group # NoGroup
    /\ last' = [op |-> "getitem", idx |-> idx, res |-> BufferGroup_getitem(group, idx)]
    /\ UNCHANGED <<poolVars, bufs, views, searchVars, collator, group>>

NextGroup ==
    \/ Build
    \/ \E start \in OptSliceArgs(GroupLen), stop \in OptSliceArgs(GroupLen),
          step \in {1, 2} : GroupSlice(start, stop, step)
    \/ \E idx \in (-GroupLen - 1)..GroupLen : GroupIndex(idx)

SpecGroup == InitGroup /\ [][NextGroup]_vars

(* Bytes i .. j-1 (counted from 0) of a byte sequence. *)
BytesBetween(bs, i, j) == IF i >= j THEN <<>> ELSE SubSeq(bs, i + 1, j)

(* len() and the bytes of what a group's slice is. *)
SliceLen(r) == IF r.kind = "view" THEN r.view.len ELSE r.group.length

SliceBytes(r) == IF r.kind = "view" THEN ViewBytes(r.view) ELSE GroupBytes(r.group)

(* C16: for a group of length L and 0 <= a <= b <= L, g[a:b] succeeds with *)
(* a view or a group of length b - a holding bytes a .. b-1 of the group;  *)
(* a slice with a step other than 1 or with b < a raises ValueError.       *)
C16_GroupSlice ==
    (last.op = "getslice" /\ last.start # None /\ last.stop # None) =>
       LET a == last.start[1]
           b == last.stop[1]
       IN /\ (last.step = 1 /\ 0 <= a /\ a <= b /\ b <= group.length) =>
                /\ last.res.err = ""
                /\ SliceLen(last.res) = b - a
                /\ SliceBytes(last.res) = BytesBetween(GroupBytes(group), a, b)
          /\ last.step # 1 => last.res.err = "ValueError"
          /\ (0 <= b /\ b < a /\ a <= group.length) => last.res.err = "ValueError"

----------------------------------------------------------------------------
(* The group query specification: the group built as above is searched     *)
(* and classified.                                                         *)

(* The needles searched for in a group: "", "a", "1", "b" and "a1". *)
GroupNeedles == {<<>>, <<97>>, <<49>>, <<98>>, <<97, 49>>}

Classes == {"space", "digit", "alpha"}

(* group.find(sub, start, stop) *)
GroupFind(sub, start, stop) ==
    /\ Building
    /\ group # NoGroup
    /\ last' = [op |-> "find", needle |-> sub, start |-> start, stop |-> stop,
                res |-> BufferGroup_find(group, sub, start, stop)]
    /\ UNCHANGED <<poolVars, bufs, views, searchVars, collator, group>>

(* group.isspace(), group.isdigit() or group.isalpha() *)
GroupClassify(cls) ==
    /\ Building
    /\ group # NoGroup
    /\ last' = [op |-> "isclass", on |-> "group", bytes |-> GroupBytes(group),
                cls |-> cls, res |-> BufferGroup_isclass(group, cls)]
    /\ UNCHANGED <<poolVars, bufs, views, searchVars, collator, group>>

(* buf.view(start, stop).isspace(), .isdigit() or .isalpha() *)
ViewClassify(start, stop, cls) ==
    LET v == Buffer_view(1, start, <<stop>>)
    IN /\ Building
       /\ v.err = ""
       /\ last' = [op |-> "isclass", on |-> "view", bytes |-> ViewBytes(v.view),
                   cls |-> cls, res |-> BufferView_isclass(v.view, cls)]
       /\ UNCHANGED <<poolVars, bufs, views, searchVars, collator, group>>

NextGroupQuery ==
    \/ Build
    \/ \E sub \in GroupNeedles, start \in -1..(GroupLen + 1),
          stop \in OptSliceArgs(GroupLen) : GroupFind(sub, start, stop)
    \/ \E cls \in Classes : GroupClassify(cls)
    \/ \E start \in GroupPos, stop \in GroupPos, cls \in Classes :
          ViewClassify(start, stop, cls)

SpecGroupQuery == InitGroup /\ [][NextGroupQuery]_vars

(* The indices i with start <= i < stop at which byte c stands in bs. *)
ByteAt(bs, c, start, stop) ==
    {i \in 0..(Len(bs) - 1) : start <= i /\ i < stop /\ bs[i + 1] = c}

(* C17: for a one-byte needle, group.find(needle, start, stop) returns the *)
(* smallest index i of the group's bytes with start <= i < stop (start     *)
(* below 0 taken as 0, stop defaulting to and capped at the length) whose  *)
(* byte is the needle, or -1 when there is none.                           *)
C17_GroupFindByte ==
    (last.op = "find" /\ Len(last.needle) = 1) =>
       LET L == group.length
           start == Max(last.start, 0)
           stop == IF last.stop = None THEN L ELSE Min(last.stop[1], L)
           M == ByteAt(GroupBytes(group), last.needle[1], start, stop)
       IN /\ last.res.err = ""
          /\ last.res.res = IF M = {} THEN -1 ELSE SetMin(M)

(* C17 for the default start and stop only. *)
C17_GroupFindByteDefault ==
    (last.op = "find" /\ last.start = 0 /\ last.stop = None) => C17_GroupFindByte

(* The bytes of the ASCII classes: space is 0x20 and 0x09..0x0D, digit is  *)
(* '0'..'9', alpha is 'A'..'Z' and 'a'..'z'.                               *)
ClassBytes(cls) ==
    IF cls = "space" THEN {32} \cup 9..13
    ELSE IF cls = "digit" THEN 48..57
    ELSE 65..90 \cup 97..122

(* C18: isspace, isdigit and isalpha of a view or a group are true exactly *)
(* when its bytes are not empty and all of the class, however a group's    *)
(* bytes are divided among its views.                                      *)
C18_Classify ==
    last.op = "isclass" =>
       (last.res <=> (/\ last.bytes # <<>>
                      /\ \A i \in 1..Len(last.bytes) : last.bytes[i] \in ClassBytes(last.cls)))

(* C18 of views, and of groups none of whose views is empty. *)
C18_ClassifyNoEmptyView ==
    (last.op = "isclass"
       /\ (last.on = "group" => \A i \in 1..Len(group.views) : group.views[i].len > 0))
    => C18_Classify

----------------------------------------------------------------------------
(* The view range specification: one buffer of two bytes is written a byte *)
(* at a time and released at any time, while the caller takes views of it  *)
(* and keeps them; the caller then slices or indexes a view it holds, or   *)
(* adds two of them.  Slicing, indexing and adding change no object, so a  *)
(* behaviour ends with one of them.                                        *)

InitRange ==
    /\ LET p == BufferPool_init(0, Len(GroupData))
       IN /\ capacity = p.capacity /\ buffer_size = p.buffer_size
          /\ freelist = p.freelist /\ num_free = p.num_free
          /\ bufs = p.bufs
    /\ held = {}
    /\ views = <<>>
    /\ needle = <<>> /\ gen = NoGen /\ pieces = <<>>
    /\ collator = NoCollator
    /\ group = NoGroup
    /\ last = NoLast

(* The caller has sliced, indexed or added. *)
Derived == last.op \in {"getslice", "getitem", "add"}

(* views[i][start:stop] *)
SliceView(i, start, stop) ==
    LET r == BufferView_getslice(views[i], start, stop)
    IN /\ last' = IF r.err = ""
                  THEN [op |-> "getslice", of |-> i, start |-> start, stop |-> stop,
                        err |-> "", res |-> r.view]
                  ELSE [op |-> "getslice", of |-> i, start |-> start, stop |-> stop,
                        err |-> r.err]
       /\ UNCHANGED <<poolVars, bufs, views, searchVars, collator, group>>

(* views[i][idx] *)
IndexView(i, idx) ==
    LET r == BufferView_getitem(views[i], idx)
    IN /\ last' = IF r.err = ""
                  THEN [op |-> "getitem", of |-> i, idx |-> idx, err |-> "", res |-> r.view]
                  ELSE [op |-> "getitem", of |-> i, idx |-> idx, err |-> r.err]
       /\ UNCHANGED <<poolVars, bufs, views, searchVars, collator, group>>

(* The slice bounds and indices tried on a view: None and every integer    *)
(* from below -len to beyond len.                                          *)
RangeArgs == (-Len(GroupData) - 1)..(Len(GroupData) + 1)

OptRangeArgs == {None} \cup {<<k>> : k \in RangeArgs}

NextRange ==
    \/ ~Derived /\ AcquireFirst
    \/ ~Derived /\ \E b \in held : Release(b)
    \/ ~Derived /\ \E b \in held : AddBytes(b, <<97>>)
    \/ ~Derived /\ \E b \in held, start \in RangeArgs, stop \in OptRangeArgs :
                      TakeView(b, start, stop)
    \/ ~Derived /\ \E i \in DOMAIN views, start \in OptRangeArgs, stop \in OptRangeArgs :
                      SliceView(i, start, stop)
    \/ ~Derived /\ \E i \in DOMAIN views, idx \in RangeArgs : IndexView(i, idx)
    \/ ~Derived /\ \E i \in DOMAIN views, j \in DOMAIN views : Add(i, j)

SpecRange == InitRange /\ [][NextRange]_vars

(* A view lies within the written part of its buffer as it is now. *)
WithinCursor(v) ==
    /\ v.buf \in DOMAIN bufs
    /\ 0 <= v.off /\ v.off <= v.off + v.len
    /\ v.off + v.len <= bufs[v.buf].writepos

(* A view lies within its buffer's capacity. *)
WithinCapacity(v) ==
    /\ v.buf \in DOMAIN bufs
    /\ 0 <= v.off /\ v.off <= v.off + v.len
    /\ v.off + v.len <= Buffer_capacity(bufs[v.buf])

(* View w has the keepalive of view v and lies within v's range. *)
WithinView(w, v) ==
    /\ w.buf = v.buf
    /\ v.off <= w.off /\ w.off <= w.off + w.len
    /\ w.off + w.len <= v.off + v.len

(* The last call made a view: view(), a slice or an index of a view, or    *)
(* the sum of two adjacent views.                                          *)
MadeView ==
    \/ last.op \in {"view", "getslice", "getitem"} /\ last.err = ""
    \/ last.op = "add" /\ last.res.kind = "view"

TheView == IF last.op = "add" THEN last.res.view ELSE last.res

(* C19 as first stated: a view made by view(), by slicing or indexing a    *)
(* view or by adding adjacent views lies within the write cursor its       *)
(* buffer has when the view is made (no such call moves the cursor).       *)
C19_ViewWithinCursor == MadeView => WithinCursor(TheView)

(* C19: a view made by view() lies within its buffer's write cursor at     *)
(* that time; a slice or an index of a view v has v's keepalive and lies   *)
(* within v's range, whatever the slice bounds; the sum of two adjacent    *)
(* views has their keepalive and covers exactly their two ranges; such a   *)
(* view lies within the cursor when the views it is made from do, and      *)
(* every view lies within its buffer's capacity.                           *)
C19_ViewRange ==
    /\ (last.op = "view" /\ last.err = "") => WithinCursor(last.res)
    /\ (last.op \in {"getslice", "getitem"} /\ last.err = "")
          => WithinView(last.res, views[last.of])
    /\ (last.op = "getitem" /\ last.err = "") => last.res.len = 1
    /\ (last.op = "add" /\ last.res.kind = "view") =>
          /\ last.res.view.buf = views[last.a].buf
          /\ last.res.view.buf = views[last.b].buf
          /\ last.res.view.off = views[last.a].off
          /\ last.res.view.len = views[last.a].len + views[last.b].len
          /\ views[last.b].off = views[last.a].off + views[last.a].len
    /\ (last.op \in {"getslice", "getitem"} /\ last.err = ""
           /\ WithinCursor(views[last.of]))
          => WithinCursor(last.res)
    /\ (last.op = "add" /\ last.res.kind = "view"
           /\ WithinCursor(views[last.a]) /\ WithinCursor(views[last.b]))
          => WithinCursor(last.res.view)
    /\ MadeView => WithinCapacity(TheView)
    /\ \A i \in DOMAIN views : WithinCapacity(views[i])

(* A view of both bytes sliced with a negative start and a stop beyond its *)
(* length, after its buffer has been released: the slice is the second     *)
(* byte, beyond the cursor, which is 0.                                    *)
C19_Witness ==
    /\ last.op = "getslice" /\ last.err = ""
    /\ views[last.of] = [buf |-> 1, off |-> 0, len |-> 2]
    /\ last.start = <<-1>> /\ last.stop = <<3>>
    /\ last.res = [buf |-> 1, off |-> 1, len |-> 1]
    /\ bufs[1].writepos = 0

----------------------------------------------------------------------------
(* Claims about a group's length and integer indexing. *)

(* The sum of the lengths of the views vs. *)
RECURSIVE SumLen(_)
SumLen(vs) == IF vs = <<>> THEN 0 ELSE Head(vs).len + SumLen(Tail(vs))

(* C20: the length of a group built by view + view, group + group and      *)
(* slicing is the sum of its views' lengths, and so is that of a group a   *)
(* slice returns; g[i] succeeds exactly for -len <= i < len, with the byte *)
(* at position i (i + len when i is negative) of the views' bytes in their *)
(* order, and raises IndexError for every other i.                         *)
C20_GroupIndex ==
    /\ group # NoGroup =>
          /\ group.length = SumLen(group.views)
          /\ group.length = Len(GroupBytes(group))
    /\ (last.op = "getslice" /\ last.res.err = "" /\ last.res.kind = "group") =>
          last.res.group.length = SumLen(last.res.group.views)
    /\ last.op = "getitem" =>
          LET L == group.length
              i == last.idx
          IN IF -L <= i /\ i < L
             THEN /\ last.res.err = ""
                  /\ ViewBytes(last.res.view)
                        = <<GroupBytes(group)[(IF i < 0 THEN i + L ELSE i) + 1]>>
             ELSE last.res.err = "IndexError"

(* A group of three views, which only slicing makes, the second empty,     *)
(* indexed from the end: its bytes are "a1" and g[-1] is "1".              *)
C20_Witness ==
    /\ last.op = "getitem" /\ last.idx = -1
    /\ Len(group.views) = 3
    /\ group.views[2].len = 0
    /\ GroupBytes(group) = <<97, 49>>
    /\ last.res.err = ""
    /\ ViewBytes(last.res.view) = <<49>>

----------------------------------------------------------------------------
(* The free-list specification: a pool with room for several buffers, and  *)
(* a caller who acquires buffers and releases the ones it has a reference  *)
(* to, in any order and any number of times (Buffer.__exit__ is release,   *)
(* so a `with` block around an explicit release releases twice), and       *)
(* writes into them.                                                       *)

MaxFreeCap == 2      \* largest capacity of the pool whose free-list is watched

InitFreeList ==
    /\ \E cap \in 0..MaxFreeCap, size \in 0..MaxPoolBufSize :
          LET p == BufferPool_init(cap, size)
          IN /\ capacity = p.capacity /\ buffer_size = p.buffer_size
             /\ freelist = p.freelist /\ num_free = p.num_free
             /\ bufs = p.bufs
    /\ held = {}
    /\ views = <<>>
    /\ needle = <<>> /\ gen = NoGen /\ pieces = <<>>
    /\ collator = NoCollator
    /\ group = NoGroup
    /\ last = NoLast

NextFreeList ==
    \/ Acquire
    \/ \E b \in held : Release(b)
    \/ \E b \in held, bs \in PoolWrites : AddBytes(b, bs)

SpecFreeList == InitFreeList /\ [][NextFreeList]_vars

(* The occupied slots of the free-list: buffer() takes slot _num_free - 1, *)
(* so slots 0 .. _num_free - 1 hold the buffers it will hand out.          *)
FreeSlots == 1..num_free

(* Two buffer() calls in a row, no release in between, return different    *)
(* buffer instances.                                                       *)
C21_AcquireStep ==
    (last.op = "buffer" /\ last'.op = "buffer") => last'.res # last.res

(* C21: whatever the caller acquires and releases, a buffer released      *)
(* again included, no buffer instance is in two occupied free-list slots,  *)
(* and buffer() does not return the same instance twice with no release in *)
(* between.                                                                *)
C21_NoDoubleSlot ==
    /\ [](\A i \in FreeSlots, j \in FreeSlots : i # j => freelist[i] # freelist[j])
    /\ [][C21_AcquireStep]_vars

----------------------------------------------------------------------------
(* The frame specification: the caller works with the buffer of a pool of  *)
(* capacity 1, a buffer of as many bytes as the longest write: it acquires *)
(* the buffer, writes into it with add_bytes and read_from, releases it    *)
(* and acquires it again, takes views of it, and slices and adds the views *)
(* it holds, keeping every view it is given.                               *)

InitFrame ==
    /\ LET p == BufferPool_init(1, Len(GroupData))
       IN /\ capacity = p.capacity /\ buffer_size = p.buffer_size
          /\ freelist = p.freelist /\ num_free = p.num_free
          /\ bufs = p.bufs
    /\ held = {}
    /\ views = <<>>
    /\ needle = <<>> /\ gen = NoGen /\ pieces = <<>>
    /\ collator = NoCollator
    /\ group = NoGroup
    /\ last = NoLast

(* buf = pool.buffer() while the free-list holds a buffer *)
AcquireFree == num_free # 0 /\ Acquire

(* w = views[i][start:stop], kept by the caller *)
KeepSlice(i, start, stop) ==
    LET r == BufferView_getslice(views[i], start, stop)
    IN /\ Len(views) < MaxViews
       /\ views' = IF r.err = "" THEN Append(views, r.view) ELSE views
       /\ last' = IF r.err = ""
                  THEN [op |-> "getslice", of |-> i, err |-> "", res |-> r.view]
                  ELSE [op |-> "getslice", of |-> i, err |-> r.err]
       /\ UNCHANGED <<poolVars, bufs, searchVars, collator, group>>

(* w = views[i] + views[j], kept by the caller when it is a view *)
KeepAdd(i, j) ==
    LET r == BufferView_add(views[i], views[j])
    IN /\ Len(views) < MaxViews
       /\ views' = IF r.kind = "view" THEN Append(views, r.view) ELSE views
       /\ last' = [op |-> "add", a |-> i, b |-> j, res |-> r]
       /\ UNCHANGED <<poolVars, bufs, searchVars, collator, group>>

(* The slice bounds and view() arguments tried. *)
FrameArgs == 0..Len(GroupData)

OptFrameArgs == {None} \cup {<<k>> : k \in FrameArgs}

NextFrame ==
    \/ AcquireFree
    \/ \E b \in held : Release(b)
    \/ \E b \in held, bs \in PoolWrites : AddBytes(b, bs)
    \/ \E b \in held : ReadFrom(b)
    \/ \E b \in held, start \in FrameArgs, stop \in OptFrameArgs : TakeView(b, start, stop)
    \/ \E i \in DOMAIN views, start \in OptFrameArgs, stop \in OptFrameArgs :
          KeepSlice(i, start, stop)
    \/ \E i \in DOMAIN views, j \in DOMAIN views : KeepAdd(i, j)

SpecFrame == InitFrame /\ [][NextFrame]_vars

(* The bytes view v exposes when the buffers are bs. *)
ViewBytesIn(bs, v) == [i \in 1..v.len |-> bs[v.buf].data[v.off + i]]

(* A call other than release leaves every buffer's bytes below its write   *)
(* cursor as they are and does not move the cursor back.                   *)
WritesBeyondCursor ==
    \A b \in DOMAIN bufs :
       /\ b \in DOMAIN bufs'
       /\ bufs'[b].writepos >= bufs[b].writepos
       /\ \A k \in 1..bufs[b].writepos : bufs'[b].data[k] = bufs[b].data[k]

(* C22 as first stated, for the call that follows the making of a view:    *)
(* when that call is not a release, so that the view's buffer has not been *)
(* released since the view was made, it changes neither the view's start   *)
(* and length nor the bytes the view exposes, and it writes only at or     *)
(* beyond the write cursor.                                                *)
C22_FrameStepSinceMade ==
    (MadeView /\ last'.op # "release") =>
       /\ ViewBytesIn(bufs', TheView) = ViewBytesIn(bufs, TheView)
       /\ views'[Len(views)] = views[Len(views)]
       /\ WritesBeyondCursor

C22_FrameSinceMade == [][C22_FrameStepSinceMade]_vars

(* No call changes the start or the length of a view the caller holds, and *)
(* a call other than release writes only at or beyond the write cursor, so *)
(* that it leaves the bytes of every view within the cursor as they are.   *)
C22_FrameStep ==
    /\ \A i \in DOMAIN views : i \in DOMAIN views' /\ views'[i] = views[i]
    /\ last'.op # "release" =>
          /\ WritesBeyondCursor
          /\ \A i \in DOMAIN views :
                WithinCursor(views[i]) =>
                   /\ ViewBytesIn(bufs', views[i]) = ViewBytesIn(bufs, views[i])
                   /\ WithinCursor(views[i])'

(* C22: a view taken with view() lies within its buffer's write cursor,    *)
(* and so does a slice or a sum of views that do; as long as a view lies   *)
(* within the cursor, no add_bytes, read_from, view, slice, sum or         *)
(* buffer() call changes its start, its length or the bytes it exposes,    *)
(* and it goes on lying within the cursor: add_bytes and read_from write   *)
(* only at or beyond the cursor, which only release moves back.            *)
C22_Frame ==
    /\ []((last.op = "view" /\ last.err = "") => WithinCursor(last.res))
    /\ []((last.op = "getslice" /\ last.err = "" /\ WithinCursor(views[last.of]))
             => WithinCursor(last.res))
    /\ []((last.op = "add" /\ last.res.kind = "view"
              /\ WithinCursor(views[last.a]) /\ WithinCursor(views[last.b]))
             => WithinCursor(last.res.view))
    /\ [][C22_FrameStep]_vars

(* The caller holds a view of the first byte and a slice of it, both "a",  *)
(* and read_from has just stored "b" behind them, at the cursor.           *)
C22_Witness ==
    /\ last.op = "read_from" /\ last.err = "" /\ last.res = 1
    /\ last.read.bytes = <<98>>
    /\ views = <<[buf |-> 1, off |-> 0, len |-> 1], [buf |-> 1, off |-> 0, len |-> 1]>>
    /\ ViewBytes(views[1]) = <<97>>
    /\ bufs[1].data = <<97, 98>> /\ bufs[1].writepos = 2
====
